---- MODULE Spec2Model ----
(***************************************************************************)
(* Model of the Nano line interpreter (src/nano.py): the restricted        *)
(* expression evaluator asteval, the statement dispatcher interpret_line   *)
(* with its single-slot block state, and the driver loop of run_minipy.    *)
(*                                                                         *)
(* A source line is modelled as the sequence of its whitespace-separated   *)
(* tokens (what line.strip().split() returns); the empty sequence is a     *)
(* blank line.  A run feeds one line after the other; the program text is  *)
(* the sequence of lines fed, each drawn from the catalog Lines.  The      *)
(* text of one run is written in one of two vocabularies, the core         *)
(* statements or the malformed and odd lines.                              *)
(*                                                                         *)
(* run_minipy may be called again in the same process: the globals of the  *)
(* module survive the call and are set anew by its first lines.            *)
(*                                                                         *)
(* The replay of a block body at the closing delimiter is modelled step by *)
(* step: pc names the place of control inside interpret_line / run_minipy  *)
(* and idx the position of the for-loop over block_lines.  The recursive   *)
(* call interpret_line(bline, ...) made for one body line is one step.     *)
(***************************************************************************)
EXTENDS Integers, Sequences, FiniteSets, TLC

\* ------------------------------------------------------------------ bounds
MaxLines == 5      \* lines of program text fed in one run
MaxVal   == 3      \* largest integer a let may store
MaxOut   == 3      \* values printed in one run
MaxExc   == 2      \* exception records logged in one run
MaxBody  == 3      \* length the body buffer may reach

\* ------------------------------------------------------------ line catalog
CloseLine == <<"}">>
BreakLine == <<"break">>

\* The well-formed statements and the malformed let.  "x" is the only
\* variable an expression reads: it is undefined until an input or a
\* successful let stores it.
CoreLines ==
  { <<"input", "x">>,
    <<"let", "x", "=", "x", "+", "1">>,
    <<"let", "x">>,
    <<"print", "x">>,
    <<"if", "x", "{">>,
    <<"elif", "1", "{">>,
    <<"else", "{">>,
    <<"while", "x", "<", "3", "{">>,
    <<"while", "1", "{">>,
    BreakLine,
    CloseLine }

\* The blank line, the openers without their brace, a second variable, and
\* what it takes to place them at top level and inside a replayed body.
EdgeLines ==
  { <<>>,
    <<"if", "x">>,
    <<"while", "x">>,
    <<"else">>,
    <<"input", "x">>,
    <<"input", "y">>,
    <<"else", "{">>,
    CloseLine }

Vocabularies == {CoreLines, EdgeLines}

\* The lines a program is made of.
Lines == CoreLines \cup EdgeLines

\* What the input channel delivers to one input statement: the text of a
\* line, or nothing (end of input).
EndOfInput == "EOF"
InputTexts == {"0", "1", EndOfInput}

\* ------------------------------------------------- values and the evaluator
\* A Python value: bool is a subclass of int, so a value is a tag and an
\* integer; True and False are the integers 1 and 0 with the tag "bool".
IntVal(n)  == [t |-> "int", v |-> n]
BoolVal(b) == [t |-> "bool", v |-> IF b THEN 1 ELSE 0]
\* the ValueError asteval raises (line 90) for every failure inside it
EvalError  == [t |-> "error", v |-> 0]

Truthy(val) == val.v # 0

Numerals    == {"0", "1", "3"}
Identifiers == {"x", "y"}
NumVal(tok) == CASE tok = "0" -> 0 [] tok = "1" -> 1 [] tok = "3" -> 3

\* visit_Constant / visit_Name for a one-token operand; any other token is
\* not an expression and ast.parse fails.
Atom(tok, env) ==
  IF tok \in Numerals THEN IntVal(NumVal(tok))
  ELSE IF tok \in Identifiers
       THEN IF tok \in DOMAIN env THEN env[tok] ELSE EvalError
       ELSE EvalError

\* visit_UnaryOp
UnaryOp(op, a) ==
  IF a = EvalError THEN EvalError
  ELSE CASE op = "+" -> IntVal(a.v)
         [] op = "-" -> IntVal(0 - a.v)
         [] OTHER    -> EvalError

\* visit_BinOp and visit_Compare on two evaluated operands
BinOp(op, l, r) ==
  IF l = EvalError \/ r = EvalError THEN EvalError
  ELSE CASE op = "+"  -> IntVal(l.v + r.v)
         [] op = "-"  -> IntVal(l.v - r.v)
         [] op = "*"  -> IntVal(l.v * r.v)
         [] op = "<"  -> BoolVal(l.v < r.v)
         [] op = ">"  -> BoolVal(l.v > r.v)
         [] op = "==" -> BoolVal(l.v = r.v)
         [] op = "!=" -> BoolVal(l.v # r.v)
         [] op = "<=" -> BoolVal(l.v <= r.v)
         [] op = ">=" -> BoolVal(l.v >= r.v)
         [] OTHER     -> EvalError

\* asteval(expr, variables) for an expression of at most three tokens: an
\* operand, a signed operand, a doubly signed operand, or two operands
\* joined by a binary operator.  Everything else of that length is a parse
\* error.  The environment is read, never written.
asteval(expr, env) ==
  CASE Len(expr) = 1 -> Atom(expr[1], env)
    [] Len(expr) = 2 -> UnaryOp(expr[1], Atom(expr[2], env))
    [] Len(expr) = 3 ->
         IF expr[1] \in {"+", "-"}
         THEN UnaryOp(expr[1], UnaryOp(expr[2], Atom(expr[3], env)))
         ELSE BinOp(expr[2], Atom(expr[1], env), Atom(expr[3], env))
    [] OTHER -> EvalError

\* ------------------------------------------------------------------- state
VARIABLES
  linenum,            \* run_minipy: index of the line being fed (0-based)
  line,               \* run_minipy: the line last fed to interpret_line
  pc,                 \* place of control (see the steps below)
  idx,                \* position of the for-loop over block_lines (1-based)
  variables,          \* the environment: a function from names to values
  in_block, block_type, block_lines,
  current_condition, executed_a_branch, while_condition,
  raisedexceptions, exceptioncount,
  stdout,             \* the texts print has written, in order
  opened,             \* history: where and how the active block was opened
  chain,              \* history: the if/elif/else chain in progress
  vocabulary,         \* the vocabulary the text of this run is written in
  previous            \* history: the runs made before this one

interp == <<variables, in_block, block_type, block_lines, current_condition,
            executed_a_branch, while_condition, raisedexceptions,
            exceptioncount, stdout>>
vars == <<linenum, line, pc, idx, variables, in_block, block_type,
          block_lines, current_condition, executed_a_branch, while_condition,
          raisedexceptions, exceptioncount, stdout, opened, chain,
          vocabulary, previous>>
session == <<vocabulary, previous>>

None == "None"
EmptyEnv == [n \in {} |-> IntVal(0)]
NoBlock == [top |-> FALSE, ln |-> 0, stale |-> 0]
NoChain == [open |-> FALSE, conds |-> <<>>, runs |-> 0]
\* n: lines fed in the earlier runs; left: the last of them ended with
\* LeftOver in the globals of the module
NoRun == [n |-> 0, left |-> FALSE]

\* exceptionslist (the four messages, by index)
exceptionslist ==
  <<"Unknown command", "Invalid syntax", "Illegal statement",
    "Missing opening brace '{'">>

\* run_minipy, lines 237-249: the state the first run of a fresh process
\* starts from
Init ==
  /\ vocabulary \in Vocabularies
  /\ previous = NoRun
  /\ linenum = 0
  /\ line = <<>>
  /\ pc = "dispatch"
  /\ idx = 1
  /\ variables = EmptyEnv
  /\ in_block = FALSE
  /\ block_type = None
  /\ block_lines = <<>>
  /\ current_condition = BoolVal(FALSE)
  /\ executed_a_branch = FALSE
  /\ while_condition = <<>>
  /\ raisedexceptions = <<>>
  /\ exceptioncount = 0
  /\ stdout = <<>>
  /\ opened = NoBlock
  /\ chain = NoChain

\* --------------------------------------------------------------- statements
\* str(value) as print writes it
Render(val) ==
  IF val.t = "bool" THEN (IF val.v = 1 THEN "True" ELSE "False")
  ELSE ToString(val.v)

\* variables[name] = val
\* Store that keeps the stored name only
Store_DropsOthers(env, name, val) ==
  [n \in {name} |-> val]

Store(env, name, val) ==
  [n \in DOMAIN env \cup {name} |-> IF n = name THEN val ELSE env[n]]

\* raiseException that appends the record and leaves the count alone
raiseException_LeavesCount(type_, l, ln) ==
  /\ Len(raisedexceptions) < MaxExc
  /\ exceptioncount' = exceptioncount
  /\ raisedexceptions' =
       Append(raisedexceptions, [type |-> type_, linenum |-> ln + 1, line |-> l])

\* raiseException(type_, line, linenum): one record
\* "<type_>: Line <linenum+1>: <line>" appended, the count incremented
raiseException(type_, l, ln) ==
  /\ Len(raisedexceptions) < MaxExc
  /\ exceptioncount' = exceptioncount + 1
  /\ raisedexceptions' =
       Append(raisedexceptions, [type |-> type_, linenum |-> ln + 1, line |-> l])

Rest(l) == SubSeq(l, 2, Len(l))
\* parts[2].startswith("=") and parts[2][1:] for the third token of a let
StartsWithEq(tok) == tok \in {"=", "=="}
AfterEq(tok) == IF tok = "=" THEN <<>> ELSE <<"=">>
\* condition_part.endswith("{") and condition_part[:-1].strip()
EndsWithBrace(part) == Len(part) > 0 /\ part[Len(part)] = "{"
DropBrace(part) == SubSeq(part, 1, Len(part) - 1)

\* lines 140-151
LetStmt(l, ln) ==
  /\ l[1] = "let"
  /\ IF Len(l) < 3 \/ ~StartsWithEq(l[3])
     THEN /\ raiseException(exceptionslist[2], l, ln)
          /\ UNCHANGED variables
     ELSE LET val == asteval(AfterEq(l[3]) \o SubSeq(l, 4, Len(l)), variables)
          IN  IF val = EvalError
              THEN /\ raiseException(exceptionslist[2], l, ln)
                   /\ UNCHANGED variables
              ELSE /\ val.v <= MaxVal /\ val.v >= 0 - MaxVal
                   /\ variables' = Store(variables, l[2], val)
                   /\ UNCHANGED <<raisedexceptions, exceptioncount>>
  /\ UNCHANGED <<in_block, block_type, block_lines, current_condition,
                 executed_a_branch, while_condition, stdout>>

\* lines 153-158
PrintStmt(l, ln) ==
  /\ l[1] = "print"
  /\ LET val == asteval(Rest(l), variables)
     IN  IF val = EvalError
         THEN /\ raiseException(exceptionslist[2], l, ln)
              /\ UNCHANGED stdout
         ELSE /\ Len(stdout) < MaxOut
              /\ stdout' = Append(stdout, Render(val))
              /\ UNCHANGED <<raisedexceptions, exceptioncount>>
  /\ UNCHANGED <<variables, in_block, block_type, block_lines,
                 current_condition, executed_a_branch, while_condition>>

\* lines 160-172: the block is opened (168, 169) before the condition is
\* evaluated (170); a failing evaluation is caught at 171 after both
\* assignments, and leaves current_condition as it was.
IfStmt(l, ln) ==
  /\ l[1] \in {"if", "elif"}
  /\ IF ~EndsWithBrace(Rest(l))
     THEN /\ raiseException(exceptionslist[4], l, ln)
          /\ UNCHANGED <<in_block, block_type, current_condition>>
     ELSE LET val == asteval(DropBrace(Rest(l)), variables)
          IN  /\ in_block' = TRUE
              /\ block_type' = l[1]
              /\ IF val = EvalError
                 THEN /\ raiseException(exceptionslist[2], l, ln)
                      /\ UNCHANGED current_condition
                 ELSE /\ current_condition' = val
                      /\ UNCHANGED <<raisedexceptions, exceptioncount>>
  /\ UNCHANGED <<variables, block_lines, executed_a_branch, while_condition,
                 stdout>>

\* lines 174-180
ElseStmt(l, ln) ==
  /\ l[1] = "else"
  /\ IF Rest(l) # <<"{">>
     THEN /\ raiseException(exceptionslist[4], l, ln)
          /\ UNCHANGED <<in_block, block_type>>
     ELSE /\ in_block' = TRUE
          /\ block_type' = "else"
          /\ UNCHANGED <<raisedexceptions, exceptioncount>>
  /\ UNCHANGED <<variables, block_lines, current_condition, executed_a_branch,
                 while_condition, stdout>>

\* WhileStmt with the block opened before the brace test
WhileStmt_OpensBeforeBraceTest(l, ln) ==
  /\ l[1] = "while"
  /\ in_block' = TRUE
  /\ block_type' = "while"
  /\ IF ~EndsWithBrace(Rest(l))
     THEN /\ raiseException(exceptionslist[4], l, ln)
          /\ UNCHANGED while_condition
     ELSE /\ while_condition' = DropBrace(Rest(l))
          /\ UNCHANGED <<raisedexceptions, exceptioncount>>
  /\ UNCHANGED <<variables, block_lines, current_condition, executed_a_branch,
                 stdout>>

\* lines 182-194: the condition text is stored, not evaluated
WhileStmt(l, ln) ==
  /\ l[1] = "while"
  /\ IF ~EndsWithBrace(Rest(l))
     THEN /\ raiseException(exceptionslist[4], l, ln)
          /\ UNCHANGED <<in_block, block_type, while_condition>>
     ELSE /\ in_block' = TRUE
          /\ block_type' = "while"
          /\ while_condition' = DropBrace(Rest(l))
          /\ UNCHANGED <<raisedexceptions, exceptioncount>>
  /\ UNCHANGED <<variables, block_lines, current_condition, executed_a_branch,
                 stdout>>

\* lines 196-222: int(user_input) succeeds on the text of an integer; input()
\* raises EOFError at the end of input, which line 221 catches
InputStmt(l, ln) ==
  /\ l[1] = "input"
  /\ IF Len(l) < 2
     THEN /\ raiseException(exceptionslist[2], l, ln)
          /\ UNCHANGED variables
     ELSE \E user_input \in InputTexts :
            IF user_input = EndOfInput
            THEN /\ raiseException(exceptionslist[2], l, ln)
                 /\ UNCHANGED variables
            ELSE /\ variables' = Store(variables, l[2], IntVal(NumVal(user_input)))
                 /\ UNCHANGED <<raisedexceptions, exceptioncount>>
  /\ UNCHANGED <<in_block, block_type, block_lines, current_condition,
                 executed_a_branch, while_condition, stdout>>

\* UnknownStmt that records the message at index 1 of exceptionslist
UnknownStmt_LogsInvalidSyntax(l, ln) ==
  /\ l[1] \notin {"let", "print", "if", "elif", "else", "while", "input"}
  /\ raiseException(exceptionslist[2], l, ln)
  /\ UNCHANGED <<variables, in_block, block_type, block_lines,
                 current_condition, executed_a_branch, while_condition, stdout>>

\* lines 226-227
UnknownStmt(l, ln) ==
  /\ l[1] \notin {"let", "print", "if", "elif", "else", "while", "input"}
  /\ raiseException(exceptionslist[1], l, ln)
  /\ UNCHANGED <<variables, in_block, block_type, block_lines,
                 current_condition, executed_a_branch, while_condition, stdout>>

\* lines 134-136: a blank line is skipped
BlankLine(l) ==
  /\ Len(l) = 0
  /\ UNCHANGED interp

\* lines 134-227: a line dispatched on its first token while no block is
\* being collected
Statement(l, ln) ==
  \/ BlankLine(l)
  \/ /\ Len(l) > 0
     /\ \/ LetStmt(l, ln)
        \/ PrintStmt(l, ln)
        \/ IfStmt(l, ln)
        \/ ElseStmt(l, ln)
        \/ WhileStmt(l, ln)
        \/ InputStmt(l, ln)
        \/ UnknownStmt(l, ln)

\* Collect with the blank-line test of lines 134-136 made before the block
\* test of line 101: a blank line is dropped instead of buffered
Collect_DropsBlank(l) ==
  /\ l # CloseLine
  /\ Len(block_lines) < MaxBody
  /\ block_lines' = IF Len(l) = 0 THEN block_lines ELSE Append(block_lines, l)
  /\ UNCHANGED <<variables, in_block, block_type, current_condition,
                 executed_a_branch, while_condition, raisedexceptions,
                 exceptioncount, stdout>>

\* lines 129-132: a line received while a block is being collected
Collect(l) ==
  /\ l # CloseLine
  /\ Len(block_lines) < MaxBody
  /\ block_lines' = Append(block_lines, l)
  /\ UNCHANGED <<variables, in_block, block_type, current_condition,
                 executed_a_branch, while_condition, raisedexceptions,
                 exceptioncount, stdout>>

\* ------------------------------------------------------- history variables
\* A block-opening line: one that opens a block when it is dispatched.
IsOpener(l) ==
  /\ Len(l) > 0
  /\ \/ l[1] \in {"if", "elif", "while"} /\ EndsWithBrace(Rest(l))
     \/ l[1] = "else" /\ Rest(l) = <<"{">>

\* outcome of the condition of an if/elif opener in the environment env
CondOf(l, env) ==
  IF l[1] = "else" THEN "else"
  ELSE LET val == asteval(DropBrace(Rest(l)), env)
       IN  IF val = EvalError THEN "E" ELSE IF Truthy(val) THEN "T" ELSE "F"

\* opened: set by the step that opens a block (top: by a line of the program
\* text, not by a replayed body line; ln: the index of that line; stale: the
\* number of lines the body buffer already held).
OpenedAfter(top) ==
  IF ~in_block /\ in_block'
  THEN [top |-> top, ln |-> linenum, stale |-> Len(block_lines)]
  ELSE opened
OpenedAtReturn == IF in_block THEN opened ELSE NoBlock

\* chain: an if opener of the program text starts a chain, each elif/else
\* opener of the program text extends it (conds: the outcome of each
\* opener's condition), the close of its else block ends it; runs counts the
\* bodies of the chain whose replay was entered.  A chain is no longer
\* followed once a block-opening line is buffered (its bodies are not flat).
ChainAfterOpen(l) ==
  IF in_block \/ ~in_block' THEN chain
  ELSE CASE l[1] = "if" ->
              [open |-> TRUE, conds |-> <<CondOf(l, variables)>>, runs |-> 0]
         [] l[1] \in {"elif", "else"} /\ chain.open ->
              [chain EXCEPT !.conds = Append(@, CondOf(l, variables))]
         [] OTHER -> [chain EXCEPT !.open = FALSE]
ChainMember ==
  chain.open /\ opened.top /\ block_type \in {"if", "elif", "else"}
ChainAfterClose ==
  IF ChainMember
  THEN [chain EXCEPT
          !.runs = IF pc' \in {"if_body", "else_body"} THEN @ + 1 ELSE @,
          !.open = block_type # "else"]
  ELSE chain

\* -------------------------------------------------------------------- steps
\* run_minipy line 252 with interpret_line lines 101, 134-227: the next line
\* of the program is dispatched as a statement.
TopStatement(l) ==
  /\ pc = "dispatch" /\ previous.n + linenum < MaxLines
  /\ ~in_block
  /\ line' = l
  /\ Statement(l, linenum)
  /\ linenum' = linenum + 1
  /\ opened' = OpenedAfter(TRUE)
  /\ chain' = ChainAfterOpen(l)
  /\ UNCHANGED <<session, pc, idx>>

\* run_minipy line 252 with interpret_line lines 101-103, 129-132
TopCollect(l) ==
  /\ pc = "dispatch" /\ previous.n + linenum < MaxLines
  /\ in_block
  /\ line' = l
  /\ Collect(l)
  /\ linenum' = linenum + 1
  /\ chain' = IF IsOpener(l) THEN [chain EXCEPT !.open = FALSE] ELSE chain
  /\ UNCHANGED <<session, pc, idx, opened>>

\* CloseTarget with the test of executed_a_branch left out of line 121
CloseTarget_IgnoresBranchTaken ==
  CASE block_type = "while" -> "while_check"
    [] block_type = "else" ->
         IF ~executed_a_branch THEN "else_body" ELSE "else_end"
    [] block_type \in {"if", "elif"} ->
         IF Truthy(current_condition) THEN "if_body" ELSE "block_end"
    [] OTHER -> "block_end"

\* the branch of lines 106-124 that the close of the block enters
CloseTarget ==
  CASE block_type = "while" -> "while_check"
    [] block_type = "else" ->
         IF ~executed_a_branch THEN "else_body" ELSE "else_end"
    [] block_type \in {"if", "elif"} ->
         IF Truthy(current_condition) /\ ~executed_a_branch
         THEN "if_body" ELSE "block_end"
    [] OTHER -> "block_end"

\* run_minipy line 252 with interpret_line lines 101-106, 114-115, 120-121:
\* the closing delimiter ends the collection and selects the replay.
TopClose(l) ==
  /\ pc = "dispatch" /\ previous.n + linenum < MaxLines
  /\ in_block
  /\ l = CloseLine
  /\ line' = l
  /\ in_block' = FALSE
  /\ pc' = CloseTarget
  /\ idx' = 1
  /\ chain' = ChainAfterClose
  /\ UNCHANGED <<session, linenum, variables, block_type, block_lines,
                 current_condition, executed_a_branch, while_condition,
                 raisedexceptions, exceptioncount, stdout, opened>>

\* interpret_line(bline, variables, linenum) called from a replay loop
\* (lines 112, 117, 123): the line number passed is that of the closing
\* delimiter.  A body line is never the closing delimiter.
ReplayLine(l) ==
  /\ IF in_block THEN Collect(l) ELSE Statement(l, linenum)
  /\ idx' = idx + 1
  /\ opened' = OpenedAfter(FALSE)
  /\ UNCHANGED <<session, linenum, line, pc, chain>>

\* line 108: the stored condition text is evaluated; a ValueError raised
\* here is caught nowhere and ends the run
WhileCheck ==
  /\ pc = "while_check"
  /\ LET val == asteval(while_condition, variables)
     IN  pc' = IF val = EvalError THEN "crashed"
               ELSE IF Truthy(val) THEN "while_body" ELSE "block_end"
  /\ idx' = 1
  /\ UNCHANGED <<session, linenum, line, interp, opened, chain>>

\* lines 109-112: one turn of the for-loop of a while pass
WhileBody ==
  /\ pc = "while_body"
  /\ idx <= Len(block_lines)
  /\ block_lines[idx] # BreakLine
  /\ ReplayLine(block_lines[idx])

\* WhileBreak with a break statement in place of the return of line 111:
\* only the pass ends, the condition is checked again
WhileBreak_EndsPassOnly ==
  /\ pc = "while_body"
  /\ idx <= Len(block_lines)
  /\ block_lines[idx] = BreakLine
  /\ pc' = "while_check"
  /\ UNCHANGED <<session, linenum, line, idx, interp, opened, chain>>

\* lines 110-111: return, which skips lines 126-127
WhileBreak ==
  /\ pc = "while_body"
  /\ idx <= Len(block_lines)
  /\ block_lines[idx] = BreakLine
  /\ pc' = "dispatch"
  /\ linenum' = linenum + 1
  /\ opened' = OpenedAtReturn
  /\ UNCHANGED <<session, line, idx, interp, chain>>

\* line 109 exhausted: back to the condition at line 108
WhilePassEnd ==
  /\ pc = "while_body"
  /\ idx > Len(block_lines)
  /\ pc' = "while_check"
  /\ UNCHANGED <<session, linenum, line, idx, interp, opened, chain>>

\* lines 122-123
IfBody ==
  /\ pc = "if_body"
  /\ idx <= Len(block_lines)
  /\ ReplayLine(block_lines[idx])

\* line 124
IfBodyEnd ==
  /\ pc = "if_body"
  /\ idx > Len(block_lines)
  /\ executed_a_branch' = TRUE
  /\ pc' = "block_end"
  /\ UNCHANGED <<session, linenum, line, idx, variables, in_block, block_type,
                 block_lines, current_condition, while_condition,
                 raisedexceptions, exceptioncount, stdout, opened, chain>>

\* lines 116-117
ElseBody ==
  /\ pc = "else_body"
  /\ idx <= Len(block_lines)
  /\ ReplayLine(block_lines[idx])

ElseBodyEnd ==
  /\ pc = "else_body"
  /\ idx > Len(block_lines)
  /\ pc' = "else_end"
  /\ UNCHANGED <<session, linenum, line, idx, interp, opened, chain>>

\* ElseEnd without the assignment of line 118
ElseEnd_KeepsFlag ==
  /\ pc = "else_end"
  /\ executed_a_branch' = executed_a_branch
  /\ pc' = "block_end"
  /\ UNCHANGED <<session, linenum, line, idx, variables, in_block, block_type,
                 block_lines, current_condition, while_condition,
                 raisedexceptions, exceptioncount, stdout, opened, chain>>

\* line 118
ElseEnd ==
  /\ pc = "else_end"
  /\ executed_a_branch' = FALSE
  /\ pc' = "block_end"
  /\ UNCHANGED <<session, linenum, line, idx, variables, in_block, block_type,
                 block_lines, current_condition, while_condition,
                 raisedexceptions, exceptioncount, stdout, opened, chain>>

\* lines 126-128, then the next turn of the loop of run_minipy
BlockEnd ==
  /\ pc = "block_end"
  /\ block_lines' = <<>>
  /\ block_type' = None
  /\ pc' = "dispatch"
  /\ linenum' = linenum + 1
  /\ opened' = OpenedAtReturn
  /\ UNCHANGED <<session, line, idx, variables, in_block, current_condition,
                 executed_a_branch, while_condition, raisedexceptions,
                 exceptioncount, stdout, chain>>

\* run_minipy lines 254-256: the program text is exhausted, the report is
\* written
EndOfProgram ==
  /\ pc = "dispatch"
  /\ pc' = "done"
  /\ UNCHANGED <<session, linenum, line, idx, interp, opened, chain>>

\* run_minipy line 256: the return code the report of the run shows
ReturnCode == exceptioncount

\* what a run may leave in the globals of the module, all at once: a block
\* still being collected, a chain flag set, lines in the body buffer and
\* records in the log
LeftOver ==
  /\ in_block
  /\ executed_a_branch
  /\ block_lines # <<>>
  /\ raisedexceptions # <<>> /\ exceptioncount # 0

\* run_minipy with the reset of executed_a_branch (line 246) left out
run_minipy_KeepsBranchTaken ==
  /\ pc \in {"done", "crashed"}
  /\ previous.n + linenum < MaxLines
  /\ vocabulary' \in Vocabularies
  /\ previous' = [n |-> previous.n + linenum, left |-> LeftOver]
  /\ linenum' = 0
  /\ pc' = "dispatch"
  /\ idx' = 1
  /\ variables' = EmptyEnv
  /\ in_block' = FALSE
  /\ block_type' = None
  /\ block_lines' = <<>>
  /\ current_condition' = BoolVal(FALSE)
  /\ while_condition' = <<>>
  /\ exceptioncount' = 0
  /\ raisedexceptions' = <<>>
  /\ stdout' = <<>>
  /\ opened' = NoBlock
  /\ line' = <<>>
  /\ chain' = NoChain
  /\ UNCHANGED executed_a_branch

\* run_minipy lines 237-249, called again after a run that has returned
\* (pc = "done") or was ended by an uncaught exception (pc = "crashed"):
\* the globals are set anew, variables is a new dictionary, the line index
\* starts at 0.  stdout holds what the run in progress has written.
run_minipy ==
  /\ pc \in {"done", "crashed"}
  /\ previous.n + linenum < MaxLines
  /\ vocabulary' \in Vocabularies
  /\ previous' = [n |-> previous.n + linenum, left |-> LeftOver]
  /\ linenum' = 0
  /\ pc' = "dispatch"
  /\ idx' = 1
  /\ variables' = EmptyEnv
  /\ in_block' = FALSE
  /\ block_type' = None
  /\ block_lines' = <<>>
  /\ current_condition' = BoolVal(FALSE)
  /\ executed_a_branch' = FALSE
  /\ while_condition' = <<>>
  /\ exceptioncount' = 0
  /\ raisedexceptions' = <<>>
  /\ stdout' = <<>>
  /\ opened' = NoBlock
  /\ line' = <<>>
  /\ chain' = NoChain

Next ==
  \/ \E l \in vocabulary : TopStatement(l)
  \/ \E l \in vocabulary : TopCollect(l)
  \/ \E l \in vocabulary : TopClose(l)
  \/ WhileCheck
  \/ WhileBody
  \/ WhileBreak
  \/ WhilePassEnd
  \/ IfBody
  \/ IfBodyEnd
  \/ ElseBody
  \/ ElseBodyEnd
  \/ ElseEnd
  \/ BlockEnd
  \/ EndOfProgram
  \/ run_minipy

Spec == Init /\ [][Next]_vars

\* ------------------------------------------------------------ sanity checks
TypeOK ==
  /\ linenum \in 0..MaxLines
  /\ pc \in {"dispatch", "while_check", "while_body", "if_body", "else_body",
             "else_end", "block_end", "crashed", "done"}
  /\ in_block \in BOOLEAN
  /\ block_type \in {None, "if", "elif", "else", "while"}
  /\ executed_a_branch \in BOOLEAN
  /\ exceptioncount \in 0..MaxExc
  /\ \A i \in 1..Len(block_lines) : block_lines[i] # CloseLine

\* ------------------------------------------------- vocabulary of the claims
InReplay == pc \in {"while_body", "if_body", "else_body"}

\* this step is a call interpret_line(l, ...): by run_minipy for the next
\* line of the program, or by a replay loop for the body line at idx
Received(l) ==
  \/ pc = "dispatch" /\ linenum' = linenum + 1 /\ l = line'
  \/ InReplay /\ idx' = idx + 1 /\ l = block_lines[idx]

\* this step is a call interpret_line(l, ...) that dispatches l as a statement
Dispatched(l) == ~in_block /\ Received(l)

\* this step is the close of a block (line 105)
Closing == pc = "dispatch" /\ in_block /\ ~in_block'

\* the close enters the replay of the body
EntersBody == pc' \in {"if_body", "else_body"}

\* the lines of the body buffer received since the opener of the block
OwnBody == SubSeq(block_lines, opened.stale + 1, Len(block_lines))

IsFlat(body) ==
  \A i \in 1..Len(body) : ~IsOpener(body[i]) /\ body[i] # BreakLine

InvalidSyntax(l, ln) ==
  [type |-> "Invalid syntax", linenum |-> ln, line |-> l]

\* ------------------------------------------------------------------- claims

\* C1: in an if / elif / else chain of three flat blocks of the program
\* text, whatever precedes it, a body is executed exactly when its block is
\* the first of the chain whose condition is true (the else block counting
\* as true): cond true -> only the if body; cond false, cond2 true -> only
\* the elif body; both false -> only the else body.
C1_Shape ==
  LET k == Len(chain.conds)
  IN  /\ ChainMember
      /\ k \in 1..3
      /\ block_type = <<"if", "elif", "else">>[k]
      /\ \A i \in 1..k :
           chain.conds[i] \in (IF i = 3 THEN {"else"} ELSE {"T", "F"})
C1_First ==
  LET k == Len(chain.conds)
  IN  /\ chain.conds[k] \in {"T", "else"}
      /\ \A i \in 1..(k - 1) : chain.conds[i] # "T"
C1_ChainSelectsFirstTrue ==
  [][(Closing /\ C1_Shape) => (EntersBody <=> C1_First)]_vars

\* C2: in one if/elif/.../else chain with flat bodies at most one body is
\* executed.
C2_BranchExclusivity == chain.runs <= 1
\* a chain whose if body ran and whose elif block, condition true, closed
\* without running
C2_Witness ==
  /\ pc = "dispatch" /\ ~in_block
  /\ chain.open /\ chain.conds = <<"T", "T">> /\ chain.runs = 1
  /\ block_type = None

\* C3: a statement that evaluates an expression referencing an undefined
\* variable (let, print, if/elif opener, the re-check of a while condition)
\* appends an InvalidSyntax record and the run goes on; it never crashes.
C3_Evaluates(e) ==
  \/ pc = "while_check" /\ e = while_condition
  \/ \E l \in Lines :
       /\ Dispatched(l)
       /\ Len(l) > 0
       /\ \/ /\ l[1] = "let" /\ Len(l) >= 3 /\ StartsWithEq(l[3])
             /\ e = AfterEq(l[3]) \o SubSeq(l, 4, Len(l))
          \/ l[1] = "print" /\ e = Rest(l)
          \/ /\ l[1] \in {"if", "elif"} /\ EndsWithBrace(Rest(l))
             /\ e = DropBrace(Rest(l))
C3_Undefined(e) ==
  \E i \in 1..Len(e) : e[i] \in Identifiers /\ e[i] \notin DOMAIN variables
C3_UndefinedVariableIsLogged ==
  [][\A e \in {DropBrace(Rest(l)) : l \in {m \in Lines : Len(m) > 1}}
            \cup {Rest(l) : l \in {m \in Lines : Len(m) > 1}}
            \cup {SubSeq(l, 4, Len(l)) : l \in {m \in Lines : Len(m) > 3}} :
       (C3_Evaluates(e) /\ C3_Undefined(e)) =>
          /\ pc' # "crashed"
          /\ Len(raisedexceptions') = Len(raisedexceptions) + 1
          /\ raisedexceptions'[Len(raisedexceptions')].type = "Invalid syntax"
    ]_vars

\* C4: the execution of a while block of the program text whose body has no
\* break and no block-opening line ends only at a re-check of the condition
\* that is false: when it ends, the condition is false in the environment.
C4_WhileEndsOnFalseCondition ==
  [][(/\ pc \in {"while_check", "while_body"}
      /\ pc' \in {"block_end", "dispatch"}
      /\ opened.top
      /\ IsFlat(OwnBody))
     => (/\ asteval(while_condition, variables') # EvalError
         /\ ~Truthy(asteval(while_condition, variables')))]_vars

\* C5: when the replay of a while body reaches a line equal to break, the
\* while execution ends at once: control returns to run_minipy for the next
\* line of the program; no body line is executed, no pass is started, the
\* condition is not evaluated, and nothing of the interpreter state changes.
C5_BreakEndsWhile ==
  [][(pc = "while_body" /\ idx <= Len(block_lines)
        /\ block_lines[idx] = BreakLine)
     => (pc' = "dispatch" /\ linenum' = linenum + 1 /\ UNCHANGED interp)]_vars
\* a while execution ended by break after a body line was executed, while
\* the condition still holds
C5_Witness ==
  /\ pc = "dispatch" /\ ~in_block /\ block_type = "while"
  /\ block_lines = << <<"print", "x">>, BreakLine >>
  /\ stdout # <<>>
  /\ Truthy(asteval(while_condition, variables))

\* C6: after a closing delimiter has been processed while a block was
\* active, the block state is cleared: not active, body buffer empty, kind
\* unset, whatever the kind and however the replay ended.
C6_CloseClearsBlockState ==
  [][(pc # "dispatch" /\ pc' = "dispatch")
     => (~in_block' /\ block_lines' = <<>> /\ block_type' = None)]_vars

\* C7: a malformed let line, at top level or in an executed block body,
\* produces exactly one InvalidSyntax record carrying the 1-based position
\* of that line in the program text and its text.
C7_SourceIndex ==
  IF pc = "dispatch" THEN linenum ELSE opened.ln + (idx - opened.stale)
C7_MalformedLetRecord ==
  [][\A l \in Lines :
       (/\ Dispatched(l)
        /\ Len(l) > 0 /\ l[1] = "let"
        /\ (Len(l) < 3 \/ ~StartsWithEq(l[3]))
        /\ (InReplay => opened.top /\ idx > opened.stale))
       => raisedexceptions' =
            Append(raisedexceptions, InvalidSyntax(l, C7_SourceIndex + 1))
    ]_vars

\* C8: whenever a block is active its kind is one of if, elif, else, while.
C8_ActiveBlockHasKind ==
  in_block => block_type \in {"if", "elif", "else", "while"}

\* C9: when an if or elif block is opened, the captured condition is the
\* truth value of that block's own condition in the environment at the
\* opener, never a value captured for an earlier block.
C9_CapturedConditionIsOwn ==
  [][\A l \in Lines :
       (/\ Dispatched(l)
        /\ Len(l) > 0 /\ l[1] \in {"if", "elif"}
        /\ in_block')
       => (/\ asteval(DropBrace(Rest(l)), variables) # EvalError
           /\ Truthy(current_condition')
                = Truthy(asteval(DropBrace(Rest(l)), variables)))
    ]_vars

\* C10: while a block is active, a received line other than the closing
\* delimiter is appended to the body buffer and nothing else changes.
C10_CollectOnlyAppends ==
  [][\A l \in Lines :
       (in_block /\ Received(l) /\ l # CloseLine)
       => (/\ block_lines' = Append(block_lines, l)
           /\ UNCHANGED <<variables, stdout, raisedexceptions, exceptioncount,
                          in_block, block_type, current_condition,
                          while_condition, executed_a_branch>>)
    ]_vars
\* a block-opening line and a break, buffered while a block is active
C10_Witness ==
  /\ pc = "dispatch" /\ in_block
  /\ Len(block_lines) = 2
  /\ IsOpener(block_lines[1])
  /\ block_lines[2] = BreakLine /\ line = BreakLine

\* an if, elif or while line whose remainder does not end with the brace,
\* or an else line whose remainder is not the brace alone
LacksBrace(l) ==
  /\ Len(l) > 0
  /\ \/ l[1] \in {"if", "elif", "while"} /\ ~EndsWithBrace(Rest(l))
     \/ l[1] = "else" /\ Rest(l) # <<"{">>

\* the step appends one record of the given type for the line l
Logs(type_, l) ==
  /\ Len(raisedexceptions') = Len(raisedexceptions) + 1
  /\ SubSeq(raisedexceptions', 1, Len(raisedexceptions)) = raisedexceptions
  /\ raisedexceptions'[Len(raisedexceptions')].type = type_
  /\ raisedexceptions'[Len(raisedexceptions')].line = l

\* C11: an if, elif or while line without its opening brace, and an else
\* line that is not "else {", dispatched as a statement, appends exactly one
\* "Missing opening brace" record and opens no block: no block is active
\* after it (so the next line is dispatched as a statement), and the
\* environment and the rest of the block state are as before.
C11_MissingBraceOpensNothing ==
  [][\A l \in Lines :
       (Dispatched(l) /\ LacksBrace(l))
         => /\ Logs(exceptionslist[4], l)
            /\ exceptioncount' = exceptioncount + 1
            /\ ~in_block'
            /\ UNCHANGED <<variables, block_type, block_lines,
                           current_condition, executed_a_branch,
                           while_condition, stdout>>]_vars

\* "input x", "while x", "else" at top level: two records, x still stored,
\* no block active
C11_Witness ==
  /\ Len(raisedexceptions) = 2
  /\ raisedexceptions[1].type = exceptionslist[4]
  /\ raisedexceptions[1].line = <<"while", "x">>
  /\ raisedexceptions[2].type = exceptionslist[4]
  /\ raisedexceptions[2].line = <<"else">>
  /\ "x" \in DOMAIN variables
  /\ ~in_block /\ block_type = None /\ pc = "dispatch"

\* C12: within one run the exception log only grows by one record appended
\* at its end (the records already logged stay, in their order), at every
\* point the exception count is the number of records in the log, and the
\* return code reported at the end of the run is 0 exactly when the log is
\* empty.
C12_LogGrowsAndIsCounted ==
  /\ [](exceptioncount = Len(raisedexceptions))
  /\ [](pc = "done" => (ReturnCode = 0 <=> raisedexceptions = <<>>))
  /\ [][pc \notin {"done", "crashed"}
          => \/ raisedexceptions' = raisedexceptions
             \/ /\ Len(raisedexceptions') = Len(raisedexceptions) + 1
                /\ SubSeq(raisedexceptions', 1, Len(raisedexceptions))
                     = raisedexceptions]_vars

\* a run that has ended with two different records logged and counted
C12_Witness ==
  /\ pc = "done"
  /\ Len(raisedexceptions) = 2
  /\ raisedexceptions[1] # raisedexceptions[2]
  /\ ReturnCode = 2

\* a run starts: run_minipy is about to feed the first line of a program
RunStart == pc = "dispatch" /\ linenum = 0

\* C13: no carryover across runs.  Whatever the runs made before in the same
\* process have left, a run starts from the state the first run of a fresh
\* process starts from: empty environment, no block, empty body buffer,
\* initial condition and chain flag, empty log, count 0, nothing written.
\* What a run of a program Q prints, logs and reports is a function of this
\* state, of Q and of the input, so it is the same after a run of any
\* program P as in a fresh process.
C13_NoCarryover ==
  RunStart
    => /\ variables = EmptyEnv
       /\ ~in_block /\ block_type = None /\ block_lines = <<>>
       /\ current_condition = BoolVal(FALSE)
       /\ ~executed_a_branch
       /\ while_condition = <<>>
       /\ raisedexceptions = <<>> /\ exceptioncount = 0
       /\ stdout = <<>>

\* a run starts after a run that ended inside an unclosed block, with the
\* chain flag set, lines buffered and records logged
C13_Witness ==
  /\ RunStart
  /\ previous.left
  /\ previous.n > 0

\* the step dispatches a statement that stores a value under l[2]: a let
\* whose expression evaluates (lines 147-148) or an input that reads a line
\* (lines 207-220)
Stores(l) ==
  /\ Dispatched(l)
  /\ Len(l) >= 2
  /\ \/ /\ l[1] = "let" /\ Len(l) >= 3 /\ StartsWithEq(l[3])
        /\ asteval(AfterEq(l[3]) \o SubSeq(l, 4, Len(l)), variables)
             # EvalError
     \/ l[1] = "input"

\* C14: inside a run the environment is changed only by a let whose
\* expression evaluates and by an input that reads a line, and then only at
\* the variable the statement names; a print, an if or elif opener, the
\* re-check of a while condition and every step that logs a record leave
\* the environment as it was.
C14_EnvironmentFrame ==
  [][pc \notin {"done", "crashed"}
       => /\ variables' # variables
               => \E l \in Lines :
                    /\ Stores(l)
                    /\ DOMAIN variables' = DOMAIN variables \cup {l[2]}
                    /\ \A n \in DOMAIN variables \ {l[2]} :
                         variables'[n] = variables[n]
          /\ raisedexceptions' # raisedexceptions => variables' = variables
          /\ pc = "while_check" => variables' = variables
          /\ \A l \in Lines :
               (Dispatched(l) /\ Len(l) > 0 /\ l[1] \in {"print", "if", "elif"})
                 => variables' = variables]_vars

\* two variables stored by input statements, with different values, and a
\* record logged afterwards by a statement that left both in place
C14_Witness ==
  /\ DOMAIN variables = {"x", "y"}
  /\ variables["x"] # variables["y"]
  /\ raisedexceptions # <<>>
  /\ raisedexceptions[1].linenum > 2

\* the first tokens interpret_line dispatches on (lines 140-196)
Keywords == {"let", "print", "if", "elif", "else", "while", "input"}

\* C15: a line dispatched while no block is active whose first token is no
\* keyword (a stray closing delimiter and a break outside a while replay
\* among them) appends exactly one "Unknown command" record and changes
\* neither the environment nor the block state; a blank line dispatched in
\* the same situation appends no record and changes nothing.
C15_UnknownCommandAndBlankLine ==
  [][\A l \in Lines :
       Dispatched(l)
         => /\ (Len(l) > 0 /\ l[1] \notin Keywords)
                 => /\ Logs(exceptionslist[1], l)
                    /\ exceptioncount' = exceptioncount + 1
                    /\ UNCHANGED <<variables, in_block, block_type,
                                   block_lines, current_condition,
                                   executed_a_branch, while_condition,
                                   stdout>>
            /\ Len(l) = 0 => UNCHANGED interp]_vars

\* "input x", a stray closing delimiter and a break at top level: one
\* record each, x still stored, no block
C15_Witness ==
  /\ Len(raisedexceptions) = 2
  /\ raisedexceptions[1].type = exceptionslist[1]
  /\ raisedexceptions[1].line = CloseLine
  /\ raisedexceptions[2].type = exceptionslist[1]
  /\ raisedexceptions[2].line = BreakLine
  /\ "x" \in DOMAIN variables
  /\ ~in_block /\ block_type = None

\* C16: the body replayed at the close of a block opened by a line of the
\* program text is exactly the sequence of lines received between that
\* opener and the closing delimiter, in order: at the close the body buffer
\* holds no line that was buffered for an earlier block of the run.
C16_ReplayedBodyIsOwn ==
  [][(Closing /\ opened.top) => block_lines = OwnBody]_vars

\* C17: at the close of an else block the body is executed if and only if
\* executed_a_branch is false, and the flag is false once the close has
\* passed line 118, in both cases; no other step of a run changes the flag
\* from true to false, so a flag set by an if / elif chain without an else
\* stays set for every later if / elif block until an else block closes.
C17_OnlyElseClearsBranchTaken ==
  [][pc \notin {"done", "crashed"}
       => /\ (Closing /\ block_type = "else")
               => (pc' = "else_body" <=> ~executed_a_branch)
          /\ (Closing /\ block_type = "else" /\ executed_a_branch)
               => pc' = "else_end"
          /\ pc = "else_end" => ~executed_a_branch'
          /\ (executed_a_branch /\ ~executed_a_branch')
               => pc = "else_end"]_vars

\* "elif 1 {", "}", "else {", "print x", "}": the else block has closed, its
\* body was skipped (nothing printed, nothing logged), the flag is false
C17_Witness ==
  /\ pc = "block_end"
  /\ block_type = "else"
  /\ block_lines = << <<"print", "x">> >>
  /\ stdout = <<>> /\ raisedexceptions = <<>>
  /\ ~executed_a_branch

\* no while block has been opened in the run and none is buffered
NoWhileBlock ==
  /\ while_condition = <<>>
  /\ \A i \in 1..Len(block_lines) :
       Len(block_lines[i]) = 0 \/ block_lines[i][1] # "while"

\* the lines the for-loop of a replay (lines 117, 123) has still to visit
LeftToReplay == Len(block_lines) - idx + 1

\* C18: in a run without a while block the replay of an if / elif / else
\* body ends after finitely many steps, so the line that closes the block
\* is processed and the run goes on to its report: each turn of the replay
\* loop brings it nearer to the end of the body buffer.
C18_ReplayComesToAnEnd ==
  [][(pc \in {"if_body", "else_body"} /\ pc' = pc /\ NoWhileBlock)
       => LeftToReplay' < LeftToReplay]_vars

\* C19: a block-opening line (if, elif, else, while) that records an
\* exception opens no block: after an if or elif line whose condition
\* fails to evaluate there is no active block, the captured condition is
\* as before, and the next line is dispatched, not buffered.
C19_FailedOpenerOpensNothing ==
  [][\A l \in Lines :
       (/\ Dispatched(l)
        /\ Len(l) > 0 /\ l[1] \in {"if", "elif", "else", "while"}
        /\ raisedexceptions' # raisedexceptions)
         => /\ ~in_block'
            /\ current_condition' = current_condition]_vars

====
